---- MODULE Spec2Model ----
(***************************************************************************)
(* Model of the three services of house-simulator:                         *)
(*   heater-service/server.py        (setpoint store, consumption report)  *)
(*   weather-service/main.py         (API-key gated weather lookup)        *)
(*   temperature-simulator/telemetry.py (endless telemetry loop)           *)
(*                                                                         *)
(* Units.  Python floats are modelled as exact fixed-point integers:       *)
(*   energy       in milli-kWh   (1 kWh = 1000)                            *)
(*   temperature  in hundredths of a degree before rounding, tenths after  *)
(* round(x, n) is modelled as nearest-value rounding, ties to even.        *)
(***************************************************************************)
EXTENDS Integers, Sequences, FiniteSets, TLC

VARIABLES
    heater_state,   \* heater: the module-level dict {"setpoint": int}
    call,           \* heater: the last tool call / HTTP request dispatched
    resp,           \* heater: the response the caller received for it
    acked,          \* heater: new_setpoint of the latest "updated" response (0: none yet)
    EXPECTED_API_KEY, \* weather: the key read from the environment at import
    w_req,          \* weather: the last HTTP request
    w_resp,         \* weather: the HTTP response to it
    t_pc,           \* telemetry: position of main() in its loop
    t_room,         \* telemetry: index into ROOMS of the room being processed
    t_telemetry,    \* telemetry: the record generate_telemetry returned
    t_record_id,    \* telemetry: what send_to_firehose returned
    t_attempts,     \* telemetry: rooms for which put_record was called in this cycle
    c_pc,           \* concurrent heater: per worker thread, position in modify_setpoint
    c_temperature,  \* concurrent heater: per worker thread, the argument
    c_old,          \* concurrent heater: per worker thread, local old_setpoint
    c_ret,          \* concurrent heater: per worker thread, the returned dict
    c_replaced,     \* concurrent heater: per thread, the value its store overwrote
    c_writes        \* concurrent heater: threads in the order their stores happened

heaterVars == <<heater_state, call, resp, acked>>
weatherVars == <<EXPECTED_API_KEY, w_req, w_resp>>
telemetryVars == <<t_pc, t_room, t_telemetry, t_record_id, t_attempts>>
concVars == <<c_pc, c_temperature, c_old, c_ret, c_replaced, c_writes>>
vars == <<heater_state, call, resp, acked, EXPECTED_API_KEY, w_req, w_resp,
          t_pc, t_room, t_telemetry, t_record_id, t_attempts,
          c_pc, c_temperature, c_old, c_ret, c_replaced, c_writes>>

\* each service is a process of its own: its steps leave the others' state alone
OnlyHeater == UNCHANGED <<weatherVars, telemetryVars, concVars>>
OnlyWeather == UNCHANGED <<heaterVars, telemetryVars, concVars>>
OnlyTelemetry == UNCHANGED <<heaterVars, weatherVars, concVars>>
OnlyConcurrent == UNCHANGED <<call, resp, acked, weatherVars, telemetryVars>>

-----------------------------------------------------------------------------
(* Bounds of the exploration *)

\* valid day counts 1..MaxDays get every noise sequence over NoiseSamples
MaxDays == 2
\* integer temperatures from MinTemp - Margin to MaxTemp + Margin are tried
Margin == 2
\* number of concurrently dispatched modify_setpoint calls
NThreads == 2

-----------------------------------------------------------------------------
(* Python values and arithmetic *)

PyInt(n) == [ty |-> "int", v |-> n]
\* True is 1, an instance of int; 15.0 and "15" are not instances of int
PyTrue == [ty |-> "bool", v |-> 1]
PyFloat(n) == [ty |-> "float", v |-> n]
PyStr(n) == [ty |-> "str", v |-> n]
None == [ty |-> "NoneType", v |-> 0]

\* isinstance(x, int): bool is a subclass of int
IsInstanceInt(x) == x.ty \in {"int", "bool"}

Abs(x) == IF x < 0 THEN -x ELSE x
Max(a, b) == IF a >= b THEN a ELSE b

\* nearest integer to num/den (den > 0), ties to the even integer
RoundHalfEven(num, den) ==
    LET q == num \div den
        r == num % den
    IN  IF 2 * r < den THEN q
        ELSE IF 2 * r > den THEN q + 1
        ELSE IF q % 2 = 0 THEN q ELSE q + 1

\* round(x, 2) for x = num/den milli-kWh; the result is in milli-kWh
Round2(num, den) == 10 * RoundHalfEven(num, 10 * den)

\* sum(d["kwh"] for d in s[lo..hi]), split in halves to keep the recursion shallow
RECURSIVE SumKwhRange(_, _, _)
SumKwhRange(s, lo, hi) ==
    IF lo > hi THEN 0
    ELSE IF lo = hi THEN s[lo].kwh
    ELSE LET mid == (lo + hi) \div 2
         IN  SumKwhRange(s, lo, mid) + SumKwhRange(s, mid + 1, hi)

SumKwh(s) == SumKwhRange(s, 1, Len(s))

-----------------------------------------------------------------------------
(* heater-service/server.py *)

DefaultSetpoint == 20
MinTemp == 8
MaxTemp == 25
MinDays == 1
MaxDaysAllowed == 365
\* random.uniform(-5, 5)
UniformLo == -5
UniformHi == 5

\* values random.uniform(-5, 5) can return, in milli-kWh
NoiseSamples == {UniformLo * 1000, -2505, 5, 1234, UniformHi * 1000}

\* for longer reports: one value on the first day, one on all later days
LongNoiseSamples == {UniformLo * 1000, UniformHi * 1000}

\* the random sequences tried for a call with `days` days
NoiseSeqs(days) ==
    IF days <= MaxDays THEN [1..days -> NoiseSamples]
    ELSE {[i \in 1..days |-> IF i = 1 THEN n ELSE m] : n, m \in LongNoiseSamples}

TemperatureArgs ==
    {PyInt(n) : n \in (MinTemp - Margin)..(MaxTemp + Margin)}
        \cup {PyTrue, PyFloat(15), PyStr(15), None}

DaysArgs ==
    {PyInt(n) : n \in (-1..MaxDays) \cup {MaxDaysAllowed, MaxDaysAllowed + 1}}
        \cup {PyTrue, PyFloat(7), PyStr(7), None}

NoCall == [op |-> "none", arg |-> None]
NoResp == [ok |-> TRUE, body |-> [status |-> "none"]]
Raise(msg) == [ok |-> FALSE, body |-> [error |-> "ValueError", message |-> msg]]

HeaterInit ==
    /\ heater_state = [setpoint |-> DefaultSetpoint]
    /\ call = NoCall
    /\ resp = NoResp
    /\ acked = 0

health_check ==
    /\ call' = [op |-> "health", arg |-> None]
    /\ resp' = [ok |-> TRUE, body |-> [status |-> "healthy"]]
    /\ UNCHANGED <<heater_state, acked>>
    /\ OnlyHeater

get_setpoint ==
    /\ call' = [op |-> "get_setpoint", arg |-> None]
    /\ resp' = [ok |-> TRUE,
                body |-> [setpoint |-> heater_state.setpoint, unit |-> "celsius"]]
    /\ UNCHANGED <<heater_state, acked>>
    /\ OnlyHeater

\* the two guards of modify_setpoint; "" means the argument passes
TemperatureErrorNoTypeCheck(temperature) ==
    IF ~(MinTemp <= temperature.v /\ temperature.v <= MaxTemp)
    THEN "Temperature must be between 8 and 25"
    ELSE ""

TemperatureErrorOffByOne(temperature) ==
    IF ~IsInstanceInt(temperature) THEN "Temperature must be an integer"
    ELSE IF ~(MinTemp <= temperature.v /\ temperature.v <= MaxTemp + 1)
    THEN "Temperature must be between 8 and 25"
    ELSE ""

TemperatureError(temperature) ==
    IF ~IsInstanceInt(temperature) THEN "Temperature must be an integer"
    ELSE IF ~(MinTemp <= temperature.v /\ temperature.v <= MaxTemp)
    THEN "Temperature must be between 8 and 25"
    ELSE ""

\* the store of line 45 forgotten
StoreSetpointNoop(state, temperature) == state

StoreSetpoint(state, temperature) == [state EXCEPT !.setpoint = temperature]

modify_setpoint(temperature) ==
    /\ call' = [op |-> "modify_setpoint", arg |-> temperature]
    /\ IF TemperatureError(temperature) # ""
       THEN /\ resp' = Raise(TemperatureError(temperature))
            /\ UNCHANGED <<heater_state, acked>>
       ELSE LET old_setpoint == heater_state.setpoint
            IN  /\ heater_state' = StoreSetpoint(heater_state, temperature.v)
                /\ resp' = [ok |-> TRUE,
                            body |-> [previous_setpoint |-> old_setpoint,
                                      new_setpoint |-> temperature.v,
                                      status |-> "updated",
                                      unit |-> "celsius"]]
                /\ acked' = temperature.v
    /\ OnlyHeater

DaysErrorOffByOne(days) ==
    IF ~IsInstanceInt(days) THEN "Days must be an integer"
    ELSE IF days.v < MinDays \/ days.v > MaxDaysAllowed + 1
    THEN "Days must be between 1 and 365"
    ELSE ""

DaysError(days) ==
    IF ~IsInstanceInt(days) THEN "Days must be an integer"
    ELSE IF days.v < MinDays \/ days.v > MaxDaysAllowed
    THEN "Days must be between 1 and 365"
    ELSE ""

\* a wider random.uniform(-6, 6)
DailyKwhWideNoise(setpoint, noise) ==
    Max(0, Round2(setpoint * 1200 + (noise * 6) \div 5, 1))

\* lines 78-82: base_kwh = setpoint * 1.2; round(base_kwh + noise, 2); max(0, .)
DailyKwh(setpoint, noise) == Max(0, Round2(setpoint * 1200 + noise, 1))

DailyConsumption(setpoint, days, noise) ==
    [day \in 1..days |-> [day |-> day, kwh |-> DailyKwh(setpoint, noise[day])]]

\* the average cut off after two decimals instead of rounded
AverageKwhTruncated(total_kwh, days) == 10 * (total_kwh \div (10 * days))

AverageKwh(total_kwh, days) == Round2(total_kwh, days)

get_consumption(days, noise) ==
    /\ call' = [op |-> "get_consumption", arg |-> days]
    /\ IF DaysError(days) # ""
       THEN resp' = Raise(DaysError(days))
       ELSE LET daily_consumption ==
                    DailyConsumption(heater_state.setpoint, days.v, noise)
                total_kwh == SumKwh(daily_consumption)
            IN  resp' = [ok |-> TRUE,
                         body |-> [days |-> days.v,
                                   daily_consumption |-> daily_consumption,
                                   total_kwh |-> Round2(total_kwh, 1),
                                   average_kwh_per_day |-> AverageKwh(total_kwh, days.v)]]
    /\ UNCHANGED <<heater_state, acked>>
    /\ OnlyHeater

ModifySetpointCall == \E temperature \in TemperatureArgs : modify_setpoint(temperature)

GetConsumptionCall ==
    \E days \in DaysArgs :
        \E noise \in NoiseSeqs(IF DaysError(days) = "" THEN days.v ELSE 0) :
            get_consumption(days, noise)

-----------------------------------------------------------------------------
(* weather-service/main.py *)

\* values of the API_KEY environment variable; "" is the default of os.getenv
ApiKeys == {"", "secret", "other"}

\* the X-API-Key header of a request: absent, or present with a value
NoHeader == [present |-> FALSE, value |-> ""]
Headers == {NoHeader} \cup {[present |-> TRUE, value |-> k] : k \in ApiKeys}

Locations == {"Stockholm", "Kiruna", ""}

\* random.uniform(-10.0, -4.0)
TempLo == -10
TempHi == -4
\* values random.uniform(-10.0, -4.0) can return, in hundredths of a degree
TempSamples == {h \in (TempLo * 100)..(TempHi * 100) : h % 5 = 0}

NoRequest == [method |-> "none", path |-> "", header |-> NoHeader, location |-> ""]
NoHttp == [status |-> 0, body |-> [detail |-> "none"]]

\* line 10: the key is read once, when the module is imported
WeatherInit ==
    /\ EXPECTED_API_KEY \in ApiKeys
    /\ w_req = NoRequest
    /\ w_resp = NoHttp

\* the weather service as the other services' specifications see it: not running
WeatherOff ==
    /\ EXPECTED_API_KEY = ""
    /\ w_req = NoRequest
    /\ w_resp = NoHttp

\* the two checks in the opposite order
verify_api_keyMismatchFirst(x_api_key) ==
    IF x_api_key # EXPECTED_API_KEY THEN 401
    ELSE IF EXPECTED_API_KEY = "" THEN 500
    ELSE 200

\* the status verify_api_key ends with: 200 stands for returning x_api_key
verify_api_key(x_api_key) ==
    IF EXPECTED_API_KEY = "" THEN 500
    ELSE IF x_api_key # EXPECTED_API_KEY THEN 401
    ELSE 200

\* x_api_key: str = Header(...): a required header; the framework answers a
\* request without it with 422 and never calls the dependency
RequiredHeaderStatus(header) == IF header.present THEN 200 ELSE 422

get_weather(header, location, sample) ==
    /\ w_req' = [method |-> "POST", path |-> "/weather",
                 header |-> header, location |-> location]
    /\ w_resp' =
         IF RequiredHeaderStatus(header) # 200
         THEN [status |-> 422, body |-> [detail |-> "Field required"]]
         ELSE IF verify_api_key(header.value) = 500
         THEN [status |-> 500, body |-> [detail |-> "API key not configured"]]
         ELSE IF verify_api_key(header.value) = 401
         THEN [status |-> 401, body |-> [detail |-> "Invalid API key"]]
         ELSE [status |-> 200,
               body |-> [location |-> location,
                         temperature |-> RoundHalfEven(sample, 10),
                         description |-> "Sunny and clear skies"]]
    /\ UNCHANGED EXPECTED_API_KEY
    /\ OnlyWeather

weather_health_check ==
    /\ w_req' = [method |-> "GET", path |-> "/health",
                 header |-> NoHeader, location |-> ""]
    /\ w_resp' = [status |-> 200, body |-> [status |-> "healthy"]]
    /\ UNCHANGED EXPECTED_API_KEY
    /\ OnlyWeather

root ==
    /\ w_req' = [method |-> "GET", path |-> "/", header |-> NoHeader, location |-> ""]
    /\ w_resp' = [status |-> 200, body |-> [service |-> "Weather API", version |-> "1.0.0"]]
    /\ UNCHANGED EXPECTED_API_KEY
    /\ OnlyWeather

GetWeatherCall ==
    \E header \in Headers, location \in Locations, sample \in TempSamples :
        get_weather(header, location, sample)

-----------------------------------------------------------------------------
(* temperature-simulator/telemetry.py *)

\* temp_base in hundredths of a degree, humidity_base in hundredths of a percent
ROOMS == << [name |-> "kitchen", temp_base |-> 2200, humidity_base |-> 5000],
            [name |-> "livingroom", temp_base |-> 2150, humidity_base |-> 4800],
            [name |-> "bedroom", temp_base |-> 2000, humidity_base |-> 5200] >>

\* values of random.uniform(-2.0, 2.0) and random.uniform(-5, 5), in hundredths
TempNoiseSamples == {-200, -5, 14, 200}
HumidityNoiseSamples == {-500, 35, 500}

\* what firehose.put_record does: raise, or return a response with a RecordId
PutOutcomes == {[raised |-> TRUE, RecordId |-> ""],
                [raised |-> FALSE, RecordId |-> "rid-a"],
                [raised |-> FALSE, RecordId |-> "rid-b"]}

NoRecordId == "None"
Uncaught == "Exception"
NoTelemetry == [room |-> "", temperature |-> 0, humidity |-> 0]

\* temperature and humidity in tenths after round(., 1)
generate_telemetry(room_name, config, tn, hn) ==
    [room |-> room_name,
     temperature |-> RoundHalfEven(config.temp_base + tn, 10),
     humidity |-> RoundHalfEven(config.humidity_base + hn, 10)]

\* without the try/except the exception leaves send_to_firehose
send_to_firehoseNoExcept(outcome) ==
    IF outcome.raised THEN Uncaught ELSE outcome.RecordId

send_to_firehose(outcome) ==
    IF outcome.raised THEN NoRecordId ELSE outcome.RecordId

TelemetryInit ==
    /\ t_pc = "generate"
    /\ t_room = 1
    /\ t_telemetry = NoTelemetry
    /\ t_record_id = NoRecordId
    /\ t_attempts = <<>>

\* line 60
Generate ==
    /\ t_pc = "generate"
    /\ \E tn \in TempNoiseSamples, hn \in HumidityNoiseSamples :
         t_telemetry' = generate_telemetry(ROOMS[t_room].name, ROOMS[t_room], tn, hn)
    /\ t_pc' = "send"
    /\ UNCHANGED <<t_room, t_record_id, t_attempts>>
    /\ OnlyTelemetry

\* line 63: one put_record call; an exception that escapes ends main()
Send ==
    /\ t_pc = "send"
    /\ \E outcome \in PutOutcomes :
         /\ t_attempts' = Append(t_attempts,
                                 [room |-> t_telemetry.room, raised |-> outcome.raised])
         /\ IF send_to_firehose(outcome) = Uncaught
            THEN /\ t_pc' = "crashed"
                 /\ UNCHANGED t_record_id
            ELSE /\ t_record_id' = send_to_firehose(outcome)
                 /\ t_pc' = "report"
    /\ UNCHANGED <<t_room, t_telemetry>>
    /\ OnlyTelemetry

\* lines 65-70, then the next iteration of the for loop or its end
Report ==
    /\ t_pc = "report"
    /\ IF t_room < Len(ROOMS)
       THEN /\ t_room' = t_room + 1
            /\ t_pc' = "generate"
       ELSE /\ t_pc' = "sleep"
            /\ UNCHANGED t_room
    /\ UNCHANGED <<t_telemetry, t_record_id, t_attempts>>
    /\ OnlyTelemetry

\* line 73, then the next iteration of while True
Sleep ==
    /\ t_pc = "sleep"
    /\ t_pc' = "generate"
    /\ t_room' = 1
    /\ t_attempts' = <<>>
    /\ UNCHANGED <<t_telemetry, t_record_id>>
    /\ OnlyTelemetry

-----------------------------------------------------------------------------
(* heater-service/server.py, modify_setpoint dispatched on worker threads *)

Threads == 1..NThreads
ConcurrentArgs == {PyInt(MinTemp - 1), PyInt(MinTemp), PyInt(15), PyInt(MaxTemp)}

ConcurrentInit ==
    /\ c_pc = [th \in Threads |-> "idle"]
    /\ c_temperature = [th \in Threads |-> None]
    /\ c_old = [th \in Threads |-> [v |-> 0, seen |-> 0]]
    /\ c_ret = [th \in Threads |-> NoResp]
    /\ c_replaced = [th \in Threads |-> 0]
    /\ c_writes = <<>>

\* lines 38-42: the argument checks, which touch no shared state
Begin(th, temperature) ==
    /\ c_pc[th] = "idle"
    /\ c_temperature' = [c_temperature EXCEPT ![th] = temperature]
    /\ IF TemperatureError(temperature) # ""
       THEN /\ c_ret' = [c_ret EXCEPT ![th] = Raise(TemperatureError(temperature))]
            /\ c_pc' = [c_pc EXCEPT ![th] = "done"]
       ELSE /\ c_pc' = [c_pc EXCEPT ![th] = "read"]
            /\ UNCHANGED c_ret
    /\ UNCHANGED <<heater_state, c_old, c_replaced, c_writes>>
    /\ OnlyConcurrent

\* line 44: old_setpoint = heater_state["setpoint"]
ReadOld(th) ==
    /\ c_pc[th] = "read"
    /\ c_old' = [c_old EXCEPT ![th] = [v |-> heater_state.setpoint, seen |-> Len(c_writes)]]
    /\ c_pc' = [c_pc EXCEPT ![th] = "write"]
    /\ UNCHANGED <<heater_state, c_temperature, c_ret, c_replaced, c_writes>>
    /\ OnlyConcurrent

\* line 45: the store, and lines 47-52: the return
Store(th) ==
    /\ c_pc[th] = "write"
    /\ heater_state' = StoreSetpoint(heater_state, c_temperature[th].v)
    /\ c_replaced' = [c_replaced EXCEPT ![th] = heater_state.setpoint]
    /\ c_writes' = Append(c_writes, th)
    /\ c_ret' = [c_ret EXCEPT ![th] =
                    [ok |-> TRUE,
                     body |-> [previous_setpoint |-> c_old[th].v,
                               new_setpoint |-> c_temperature[th].v,
                               status |-> "updated",
                               unit |-> "celsius"]]]
    /\ c_pc' = [c_pc EXCEPT ![th] = "done"]
    /\ UNCHANGED <<c_temperature, c_old>>
    /\ OnlyConcurrent

BeginCall == \E th \in Threads, temperature \in ConcurrentArgs : Begin(th, temperature)
ReadOldStep == \E th \in Threads : ReadOld(th)
StoreStep == \E th \in Threads : Store(th)

-----------------------------------------------------------------------------
(* Specifications: one per service; the other services stand still *)

Init == HeaterInit /\ WeatherOff /\ TelemetryInit /\ ConcurrentInit
InitWeather == HeaterInit /\ WeatherInit /\ TelemetryInit /\ ConcurrentInit

\* the heater service, one request handled at a time
Next ==
    \/ health_check
    \/ get_setpoint
    \/ ModifySetpointCall
    \/ GetConsumptionCall
Spec == Init /\ [][Next]_vars

\* the weather service
NextWeather ==
    \/ weather_health_check
    \/ root
    \/ GetWeatherCall
SpecWeather == InitWeather /\ [][NextWeather]_vars

\* the telemetry simulator: a running process keeps taking steps
NextTelemetry ==
    \/ Generate
    \/ Send
    \/ Report
    \/ Sleep
SpecTelemetry == Init /\ [][NextTelemetry]_vars /\ WF_vars(NextTelemetry)

\* the heater service with modify_setpoint calls running on several threads
NextConcurrent ==
    \/ BeginCall
    \/ ReadOldStep
    \/ StoreStep
SpecConcurrent == Init /\ [][NextConcurrent]_vars

-----------------------------------------------------------------------------
(* Claims about the heater service (specification Spec) *)

ValidTemperature(x) == x.ty = "int" /\ MinTemp <= x.v /\ x.v <= MaxTemp
\* an integer (of type int or bool) in [1, 365]
ValidDays(x) == x.ty \in {"int", "bool"} /\ MinDays <= x.v /\ x.v <= MaxDaysAllowed

C1ModifyStep ==
    (call'.op = "modify_setpoint" /\ ValidTemperature(call'.arg)) =>
        /\ resp'.ok
        /\ resp'.body = [previous_setpoint |-> heater_state.setpoint,
                         new_setpoint |-> call'.arg.v,
                         status |-> "updated",
                         unit |-> "celsius"]

C1GetAfter ==
    call.op = "get_setpoint" =>
        /\ resp.ok
        /\ resp.body.setpoint = (IF acked = 0 THEN DefaultSetpoint ELSE acked)

\* C1: modify_setpoint(t) with an integer t in [8,25] succeeds and returns the
\* setpoint stored before the call as previous_setpoint, t as new_setpoint,
\* status "updated" and unit "celsius"; a get_setpoint issued later, with no
\* successful modify_setpoint in between, returns the t of the latest one
\* (20 when there was none).
C1_ModifyThenGet == [][C1ModifyStep]_vars /\ []C1GetAfter

\* the documented scenario: default state, modify_setpoint(15), get_setpoint
C1_Witness ==
    /\ call.op = "get_setpoint"
    /\ acked = 15
    /\ resp.body.setpoint = 15

C2FailedStep ==
    (call'.op = "modify_setpoint" /\ ~ValidTemperature(call'.arg)) =>
        /\ ~resp'.ok
        /\ resp'.body.error = "ValueError"
        /\ heater_state' = heater_state

C2GetAfterFailed ==
    (call.op = "modify_setpoint" /\ ~resp.ok) =>
        heater_state.setpoint = (IF acked = 0 THEN DefaultSetpoint ELSE acked)

\* C2: modify_setpoint(t) with an integer t outside [8,25] or a t that is not
\* an integer fails with a validation error and leaves the stored setpoint
\* as it was, so that get_setpoint still returns the value from before.
C2_InvalidRejected == [][C2FailedStep]_vars /\ []C2GetAfterFailed

\* a rejected out-of-range call after the setpoint was moved off its default
C2_Witness ==
    /\ call = [op |-> "modify_setpoint", arg |-> PyInt(MaxTemp + 1)]
    /\ ~resp.ok
    /\ heater_state.setpoint = MinTemp

C3Range == heater_state.setpoint \in MinTemp..MaxTemp

C3OnlyModify ==
    heater_state'.setpoint # heater_state.setpoint =>
        /\ call'.op = "modify_setpoint"
        /\ resp'.ok
        /\ heater_state'.setpoint = call'.arg.v

\* C3: the stored setpoint is 20 at start, is an integer in [8,25] in every
\* reachable state, and changes only in a successful modify_setpoint.
C3_SetpointInvariant ==
    /\ heater_state.setpoint = DefaultSetpoint
    /\ []C3Range
    /\ [][C3OnlyModify]_vars

\* the setpoint at the upper limit, seen after a rejected call
C3_Witness ==
    /\ heater_state.setpoint = MaxTemp
    /\ call.op = "modify_setpoint"
    /\ ~resp.ok

\* C4: get_consumption(d) with an integer d in [1,365] returns days = d and d
\* entries with day = 1..d in order, each kwh >= 0 and within 5 kWh of
\* 1.2 * setpoint (floored at 0).
C4_ConsumptionEntries ==
    (call.op = "get_consumption" /\ ValidDays(call.arg)) =>
        LET d == call.arg.v
            s == heater_state.setpoint
            daily == resp.body.daily_consumption
        IN  /\ resp.ok
            /\ resp.body.days = d
            /\ DOMAIN daily = 1..d
            /\ \A i \in 1..d :
                 /\ daily[i].day = i
                 /\ daily[i].kwh >= 0
                 /\ daily[i].kwh >= Max(0, 1200 * s - 5000)
                 /\ daily[i].kwh <= 1200 * s + 5000

\* setpoint 20, one day, the entry at the upper end of [19, 29]
C4_Witness ==
    /\ call = [op |-> "get_consumption", arg |-> PyInt(1)]
    /\ heater_state.setpoint = DefaultSetpoint
    /\ resp.body.daily_consumption[1].kwh = 29000

\* C5: total_kwh is the sum of the returned kwh values rounded to two
\* decimals, and average_kwh_per_day is total_kwh / d rounded to two decimals
\* (both multiples of 0.01 kWh, at most 0.005 kWh from the exact value).
C5_TotalAndAverage ==
    (call.op = "get_consumption" /\ ValidDays(call.arg)) =>
        LET d == call.arg.v
            total == resp.body.total_kwh
            average == resp.body.average_kwh_per_day
            exact == SumKwh(resp.body.daily_consumption)
        IN  /\ total % 10 = 0
            /\ 2 * Abs(total - exact) <= 10
            /\ average % 10 = 0
            /\ 2 * Abs(average * d - total) <= 10 * d

\* two days whose average does not fall on a multiple of 0.01 kWh
C5_Witness ==
    /\ call = [op |-> "get_consumption", arg |-> PyInt(2)]
    /\ resp.ok
    /\ resp.body.total_kwh % 20 # 0

C6FailedStep ==
    (call'.op = "get_consumption" /\ ~ValidDays(call'.arg)) =>
        /\ ~resp'.ok
        /\ resp'.body.error = "ValueError"
        /\ "daily_consumption" \notin DOMAIN resp'.body
        /\ heater_state' = heater_state

\* C6: get_consumption(d) with an integer d outside [1,365] (0 and 366 among
\* them) or a d that is not an integer fails with a validation error, returns
\* no consumption data and leaves the stored setpoint unchanged.
C6_InvalidDaysRejected == [][C6FailedStep]_vars

\* get_consumption(366) rejected
C6_Witness ==
    /\ call = [op |-> "get_consumption", arg |-> PyInt(MaxDaysAllowed + 1)]
    /\ ~resp.ok
    /\ heater_state.setpoint # DefaultSetpoint

-----------------------------------------------------------------------------
(* Claims about the weather service (specification SpecWeather) *)

\* C7: a POST /weather that carries an X-API-Key header k gets 500 when no
\* server-side key is configured (whatever k is, the empty string included),
\* else 401 when k differs from the configured key, else 200 with the
\* requested location and a temperature in [-10.0, -4.0].
C7_KeyDecidesStatus ==
    (w_req.path = "/weather" /\ w_req.header.present) =>
        IF EXPECTED_API_KEY = "" THEN w_resp.status = 500
        ELSE IF w_req.header.value # EXPECTED_API_KEY THEN w_resp.status = 401
        ELSE /\ w_resp.status = 200
             /\ w_resp.body.location = w_req.location
             /\ w_resp.body.temperature >= 10 * TempLo
             /\ w_resp.body.temperature <= 10 * TempHi

\* the correct key, answered with the warmest temperature
C7_Witness ==
    /\ w_req.path = "/weather"
    /\ w_req.header = [present |-> TRUE, value |-> "secret"]
    /\ EXPECTED_API_KEY = "secret"
    /\ w_resp.status = 200
    /\ w_resp.body.location = "Kiruna"
    /\ w_resp.body.temperature = 10 * TempHi

\* C8: a POST /weather without an X-API-Key header gets 401 when a server-side
\* key is configured and 500 when none is.
C8_MissingHeaderStatus ==
    (w_req.path = "/weather" /\ ~w_req.header.present) =>
        w_resp.status = (IF EXPECTED_API_KEY = "" THEN 500 ELSE 401)

-----------------------------------------------------------------------------
(* Claims about the telemetry simulator (specification SpecTelemetry) *)

RoomNames == [i \in 1..Len(ROOMS) |-> ROOMS[i].name]
AttemptedRooms == [i \in 1..Len(t_attempts) |-> t_attempts[i].room]

\* one put per room so far in this cycle, in the order of ROOMS
C9OnePutPerRoom ==
    /\ t_pc \in {"generate", "send", "report", "sleep"}
    /\ t_room \in 1..Len(ROOMS)
    /\ Len(t_attempts) = (IF t_pc \in {"generate", "send"} THEN t_room - 1 ELSE t_room)
    /\ AttemptedRooms = SubSeq(RoomNames, 1, Len(t_attempts))
    /\ t_pc = "sleep" => AttemptedRooms = RoomNames

\* a put is followed by the next room's put or by the sleep, a sleep by the
\* first room of the next cycle; a failed put is not repeated
C9Step ==
    /\ (t_pc = "send" /\ t_pc' # "send") => t_pc' = "report"
    /\ t_pc = "report" =>
         IF t_room < Len(ROOMS)
         THEN t_pc' = "generate" /\ t_room' = t_room + 1
         ELSE t_pc' = "sleep"
    /\ t_pc = "sleep" => (t_pc' = "generate" /\ t_room' = 1 /\ t_attempts' = <<>>)

C9Attempted(i) == t_pc = "report" /\ t_room = i

\* C9: in every cycle exactly one put is attempted for kitchen, livingroom and
\* bedroom, in that order, whatever the outcomes; then comes the sleep and the
\* next cycle; the loop never terminates, and every room is attempted again
\* and again.
C9_LoopSurvivesFailures ==
    /\ []C9OnePutPerRoom
    /\ [][C9Step]_vars
    /\ \A i \in 1..3 : []<>C9Attempted(i)

\* a cycle in which all three puts failed, now sleeping
C9_Witness ==
    /\ t_pc = "sleep"
    /\ t_attempts = << [room |-> "kitchen", raised |-> TRUE],
                       [room |-> "livingroom", raised |-> TRUE],
                       [room |-> "bedroom", raised |-> TRUE] >>

-----------------------------------------------------------------------------
(* Claims about concurrent modify_setpoint calls (specification SpecConcurrent) *)

Returned(th) == c_pc[th] = "done" /\ c_ret[th].ok
LastWritten ==
    IF c_writes = <<>> THEN DefaultSetpoint
    ELSE c_temperature[c_writes[Len(c_writes)]].v
\* the setpoint after the first n stores
AfterWrites(n) == IF n = 0 THEN DefaultSetpoint ELSE c_temperature[c_writes[n]].v
WritePosition(th) == CHOOSE i \in 1..Len(c_writes) : c_writes[i] = th

\* C10 as stated: however the calls interleave, every call returns as
\* previous_setpoint the value its own store replaced, and the stored
\* setpoint is the one written last.
C10_Serializable ==
    /\ heater_state.setpoint = LastWritten
    /\ \A th \in Threads :
         Returned(th) => c_ret[th].body.previous_setpoint = c_replaced[th]

\* C10 amended: the stored setpoint is the one written by the latest store
\* (last write wins); a call returns as previous_setpoint the value stored
\* when it read the setpoint, which is the value its own store replaced
\* whenever no other call's store came between its read and its store.
C10_LastWriteWins ==
    /\ heater_state.setpoint = LastWritten
    /\ \A th \in Threads :
         Returned(th) =>
            /\ c_ret[th].body.new_setpoint = c_temperature[th].v
            /\ c_ret[th].body.previous_setpoint = AfterWrites(c_old[th].seen)
            /\ (c_old[th].seen = WritePosition(th) - 1 =>
                    c_ret[th].body.previous_setpoint = c_replaced[th])

\* two calls that both read before either stored
C10_Witness ==
    /\ \A th \in Threads : Returned(th)
    /\ \E a, b \in Threads :
         /\ a # b
         /\ c_old[a].seen = 0
         /\ c_old[b].seen = 0
         /\ c_temperature[a].v # c_temperature[b].v
         /\ c_writes[1] = a

====
